---- MODULE Spec2Model ----
(***************************************************************************)
(* A model of process_analyzer.py: the ProcessAnalyzer class (lazy loading *)
(* of the event log, the linear BPMN flow, the Sankhya Flow script         *)
(* templater) and the __main__ driver.                                     *)
(*                                                                         *)
(* Text is a sequence of tokens.  A token is either one character of an    *)
(* input line or one literal fragment of the source's string constants.    *)
(* The marker "Atividade: " is one token: it has no proper border (it      *)
(* starts with "A" and ends with a blank), so its occurrences in a string  *)
(* never overlap and str.split / the `in` test see exactly the token's     *)
(* occurrences.  Accented letters of the literals are written in ASCII.    *)
(***************************************************************************)
EXTENDS Integers, Sequences, FiniteSets, TLC

VARIABLES file, event_log, reads, last, bpmn, bottlenecks, script, pc, stages, outfile

vars == <<file, event_log, reads, last, bpmn, bottlenecks, script, pc, stages, outfile>>

(***************************************************************************)
(* Bounds of the model.                                                    *)
(***************************************************************************)
MaxLines == 2
MaxChars == 4
MaxRows == 3
MaxReads == 3
MaxEntries == 2

(***************************************************************************)
(* Optional values: Python's None and a present value.                     *)
(***************************************************************************)
None == <<>>
Some(x) == <<x>>

(***************************************************************************)
(* Text primitives used by generate_sankhya_flow_script (lines 111-134).   *)
(***************************************************************************)
MARK == "Atividade: "
COMMA == ","
BLANK == " "
NL == "\n"

\* the characters an input line is made of
Char == {MARK, COMMA, BLANK, "a"}

\* Python: sub in s, for a one-token sub
Contains(s, t) == \E i \in 1..Len(s) : s[i] = t

\* Python: s.split(sep), for a one-token sep
RECURSIVE split(_, _)
split(s, sep) ==
    IF ~Contains(s, sep) THEN <<s>>
    ELSE LET i == CHOOSE k \in 1..Len(s) : s[k] = sep /\ \A j \in 1..(k-1) : s[j] # sep
         IN  <<SubSeq(s, 1, i-1)>> \o split(SubSeq(s, i+1, Len(s)), sep)

\* Python: s.strip()
RECURSIVE strip(_)
strip(s) ==
    IF s = <<>> THEN s
    ELSE IF Head(s) = BLANK THEN strip(Tail(s))
    ELSE IF s[Len(s)] = BLANK THEN strip(SubSeq(s, 1, Len(s)-1))
    ELSE s

(***************************************************************************)
(* The literal fragments of the script, in the order the source has them.  *)
(***************************************************************************)
HEADER1 == "// Script de Automacao Sankhya Flow gerado por IA"
HEADER2 == "// Este script pode ser usado para automatizar otimizacoes de processos identificadas."
HEADING == "// Gargalos identificados e sugestoes de otimizacao:"
COMMENT == "// "
EXEMPLO_PRE == "// Exemplo de automacao para a atividade '"
EXEMPLO_POST == "':"
VAR_QUERY == "// var query = getQuery();"
SELECT_PRE == "// query.nativeSelect(\"SELECT * FROM TGFTAB WHERE DESCRICAO = \\'"
SELECT_POST == "\\'\");"
IF_NEXT == "// if (query.next()) { "
MENSAGEM_PRE == "//     mensagem = 'Atividade "
MENSAGEM_POST == " encontrada. Iniciando otimizacao...';"
ADICIONE == "//     // Adicione aqui a logica de automacao especifica para a otimizacao desta atividade"
ELSE_LINE == "// } else { "
ERRO_PRE == "//     mostraErro('Atividade "
ERRO_POST == " nao encontrada para otimizacao.');"
CLOSE == "// }"
NENHUM == "// Nenhum gargalo significativo identificado para gerar automacoes."
FOOTER == "// Para mais informacoes sobre as APIs JavaScript do Sankhya, consulte a documentacao oficial."

\* lines 112-113
header == <<HEADER1, NL, NL, HEADER2, NL, NL>>

\* line 133
footer == <<FOOTER, NL>>

\* a variant of line 120 without the strip()
activity_name_unstripped(bottleneck) == split(split(bottleneck, MARK)[2], COMMA)[1]

\* line 120
activity_name(bottleneck) == strip(split(split(bottleneck, MARK)[2], COMMA)[1])

\* lines 121-129
template(name) ==
       <<EXEMPLO_PRE>> \o name \o <<EXEMPLO_POST, NL>>
    \o <<VAR_QUERY, NL>>
    \o <<SELECT_PRE>> \o name \o <<SELECT_POST, NL>>
    \o <<IF_NEXT, NL>>
    \o <<MENSAGEM_PRE>> \o name \o <<MENSAGEM_POST, NL>>
    \o <<ADICIONE, NL>>
    \o <<ELSE_LINE, NL>>
    \o <<ERRO_PRE>> \o name \o <<ERRO_POST, NL>>
    \o <<CLOSE, NL, NL>>

\* a variant of line 118 that writes the stripped line as the comment
bottleneck_block_stripped(bottleneck) ==
    <<COMMENT>> \o strip(bottleneck) \o <<NL>>
    \o (IF Contains(bottleneck, MARK) THEN template(activity_name(bottleneck)) ELSE <<>>)

\* lines 118-129: one iteration of the loop
bottleneck_block(bottleneck) ==
    <<COMMENT>> \o bottleneck \o <<NL>>
    \o (IF Contains(bottleneck, MARK) THEN template(activity_name(bottleneck)) ELSE <<>>)

\* lines 117-129: the loop
RECURSIVE bottleneck_loop(_)
bottleneck_loop(bs) ==
    IF bs = <<>> THEN <<>> ELSE bottleneck_block(Head(bs)) \o bottleneck_loop(Tail(bs))

\* a variant with line 133 indented into the else branch
generate_sankhya_flow_script_footer_in_else(bs) ==
    header
    \o (IF bs # <<>> THEN <<HEADING, NL>> \o bottleneck_loop(bs) ELSE <<NENHUM, NL>> \o footer)

\* a variant of line 115 that tests `bottlenecks is not None`
generate_sankhya_flow_script_not_none(bs) ==
    header \o <<HEADING, NL>> \o bottleneck_loop(bs) \o footer

\* lines 111-134
generate_sankhya_flow_script(bs) ==
    header
    \o (IF bs # <<>> THEN <<HEADING, NL>> \o bottleneck_loop(bs) ELSE <<NENHUM, NL>>)
    \o footer

(***************************************************************************)
(* The templater on its own: a caller builds any list of lines within the  *)
(* bounds and renders it.                                                  *)
(***************************************************************************)
TotalChars(bs) == LET RECURSIVE sum(_)
                      sum(l) == IF l = <<>> THEN 0 ELSE Len(Head(l)) + sum(Tail(l))
                  IN  sum(bs)

InitCommon ==
    /\ event_log = None
    /\ reads = 0
    /\ last = [op |-> "init", raised |-> FALSE, loaded |-> FALSE]
    /\ bpmn = None
    /\ bottlenecks = <<>>
    /\ script = None
    /\ stages = <<>>
    /\ outfile = None

InitScript ==
    /\ InitCommon
    /\ file = [has_case_id |-> TRUE, has_activity |-> TRUE, has_timestamp |-> TRUE,
               parseable |-> TRUE, rows |-> <<>>]
    /\ pc = "input"

\* the caller appends an empty line to the argument
AddLine ==
    /\ pc = "input"
    /\ Len(bottlenecks) < MaxLines
    /\ bottlenecks' = Append(bottlenecks, <<>>)
    /\ UNCHANGED <<file, event_log, reads, last, bpmn, script, pc, stages, outfile>>

\* the caller appends a character to the last line of the argument
AddChar ==
    /\ pc = "input"
    /\ bottlenecks # <<>>
    /\ TotalChars(bottlenecks) < MaxChars
    /\ \E c \in Char :
         bottlenecks' = [bottlenecks EXCEPT ![Len(bottlenecks)] = Append(@, c)]
    /\ UNCHANGED <<file, event_log, reads, last, bpmn, script, pc, stages, outfile>>

\* the call generate_sankhya_flow_script(bottlenecks)
Render ==
    /\ pc = "input"
    /\ script' = Some(generate_sankhya_flow_script(bottlenecks))
    /\ pc' = "rendered"
    /\ last' = [op |-> "generate_sankhya_flow_script", raised |-> FALSE, loaded |-> FALSE]
    /\ UNCHANGED <<file, event_log, reads, bpmn, bottlenecks, stages, outfile>>

NextScript == AddLine \/ AddChar \/ Render

SpecScript == InitScript /\ [][NextScript]_vars

(***************************************************************************)
(* Reading a rendered script back: the framing, the blocks of the loop and *)
(* the name a template refers to.  None of this is taken from the          *)
(* templater's definitions; it looks only at the produced text.            *)
(***************************************************************************)
Rendered == pc = "rendered" /\ script # None

Out == script[1]

\* the positions of token t in s, ascending
Positions(s, t) ==
    LET at == {i \in 1..Len(s) : s[i] = t}
    IN  [k \in 1..Cardinality(at) |->
            CHOOSE i \in at : Cardinality({j \in at : j < i}) = k - 1]

\* the text between the header block and the footer line
Body(out) == SubSeq(out, 7, Len(out) - 2)

\* the k-th block of the body: from the k-th verbatim comment to the next one
Block(out, k) ==
    LET starts == Positions(out, COMMENT)
        stop == IF k < Len(starts) THEN starts[k+1] - 1 ELSE Len(out) - 2
    IN  SubSeq(out, starts[k], stop)

\* what follows the verbatim comment of line b in its block
AfterComment(block, b) == SubSeq(block, Len(b) + 3, Len(block))

\* the lines of a text in which every line ends with NL
LinesOf(text) == LET parts == split(text, NL) IN SubSeq(parts, 1, Len(parts) - 1)

\* the number of lines of a text that are not blank
CountLines(text) == Cardinality({i \in 1..Len(LinesOf(text)) : LinesOf(text)[i] # <<>>})

\* a template line that embeds a name between two literals
Embeds(line, pre, name, post) == line = <<pre>> \o name \o <<post>>

\* the name the first template line of a block refers to
NameUsed(rest) == LET l == LinesOf(rest)[1] IN SubSeq(l, 2, Len(l) - 1)

\* the text after the first marker of a line
AfterMarker(b) == SubSeq(b, Positions(b, MARK)[1] + 1, Len(b))

\* the part of s before its first token of the set stops (all of s if none)
UpTo(s, stops) ==
    LET hits == {i \in 1..Len(s) : s[i] \in stops}
    IN  IF hits = {} THEN s
        ELSE SubSeq(s, 1, (CHOOSE i \in hits : \A j \in hits : i <= j) - 1)

\* s without its leading and trailing blanks
Trim(s) ==
    LET solid == {i \in 1..Len(s) : s[i] # BLANK}
    IN  IF solid = {} THEN <<>>
        ELSE SubSeq(s, CHOOSE i \in solid : \A j \in solid : i <= j,
                       CHOOSE i \in solid : \A j \in solid : j <= i)

\* rest is a block of nine comment lines and a blank line, four of them naming n
IsTemplateFor(rest, n) ==
    LET l == LinesOf(rest)
    IN  /\ Len(l) = 10
        /\ Embeds(l[1], EXEMPLO_PRE, n, EXEMPLO_POST)
        /\ l[2] = <<VAR_QUERY>>
        /\ Embeds(l[3], SELECT_PRE, n, SELECT_POST)
        /\ l[4] = <<IF_NEXT>>
        /\ Embeds(l[5], MENSAGEM_PRE, n, MENSAGEM_POST)
        /\ l[6] = <<ADICIONE>>
        /\ l[7] = <<ELSE_LINE>>
        /\ Embeds(l[8], ERRO_PRE, n, ERRO_POST)
        /\ l[9] = <<CLOSE>>
        /\ l[10] = <<>>

\* every line of the argument has its block, in order, starting with the line
\* verbatim as a comment, and followed by more text exactly for marker lines
BlocksInOrder(out, bs) ==
    /\ Len(Positions(out, COMMENT)) = Len(bs)
    /\ SubSeq(Body(out), 1, 2) = <<HEADING, NL>>
    /\ bs # <<>> => Positions(out, COMMENT)[1] = 9
    /\ \A k \in 1..Len(bs) :
         LET block == Block(out, k)
         IN  /\ Len(block) >= Len(bs[k]) + 2
             /\ SubSeq(block, 1, Len(bs[k]) + 2) = <<COMMENT>> \o bs[k] \o <<NL>>
             /\ (AfterComment(block, bs[k]) # <<>>) <=> Contains(bs[k], MARK)

(***************************************************************************)
(* C3.  Whatever the list of lines (empty, marker lines, unstructured      *)
(* lines, a mix), the rendered script begins with the fixed header line    *)
(* and ends with the fixed footer line.                                    *)
(***************************************************************************)
C3_Framing ==
    Rendered =>
        /\ Len(Out) >= 4
        /\ SubSeq(Out, 1, 2) = <<HEADER1, NL>>
        /\ SubSeq(Out, Len(Out) - 1, Len(Out)) = <<FOOTER, NL>>
        /\ Len(Positions(Out, HEADER1)) = 1
        /\ Len(Positions(Out, FOOTER)) = 1

\* a rendered mix: one marker line and one line without the marker
C3_Witness ==
    /\ Rendered
    /\ Len(bottlenecks) = 2
    /\ Contains(bottlenecks[1], MARK)
    /\ ~Contains(bottlenecks[2], MARK)
    /\ bottlenecks[2] # <<>>

(***************************************************************************)
(* C4.  For the empty list the script is the header block, the single      *)
(* "no significant bottleneck" line and the footer: no heading, no         *)
(* per-line comment, no template.                                          *)
(***************************************************************************)
C4_EmptyList ==
    (Rendered /\ bottlenecks = <<>>) =>
        /\ SubSeq(Out, 1, 6) = <<HEADER1, NL, NL, HEADER2, NL, NL>>
        /\ SubSeq(Out, Len(Out) - 1, Len(Out)) = <<FOOTER, NL>>
        /\ LinesOf(Body(Out)) = << <<NENHUM>> >>
        /\ Positions(Out, COMMENT) = <<>>
        /\ Positions(Out, EXEMPLO_PRE) = <<>>
        /\ Positions(Out, HEADING) = <<>>

C4_Witness == Rendered /\ bottlenecks = <<>>

(***************************************************************************)
(* C5 as stated.  For a non-empty list, every line is emitted verbatim as  *)
(* a comment, in input order, and a line is followed by the template, a    *)
(* block of five lines, exactly when it holds the marker.                  *)
(***************************************************************************)
C5_FiveLineTemplate ==
    (Rendered /\ bottlenecks # <<>>) =>
        /\ BlocksInOrder(Out, bottlenecks)
        /\ \A k \in 1..Len(bottlenecks) :
             Contains(bottlenecks[k], MARK) =>
                CountLines(AfterComment(Block(Out, k), bottlenecks[k])) = 5

(***************************************************************************)
(* C5 amended.  For a non-empty list, every line is emitted verbatim as a  *)
(* comment, in input order, and a line is followed by the template exactly *)
(* when it holds the marker; the template is nine comment lines and a      *)
(* blank line, four of the nine referring to one activity name.            *)
(***************************************************************************)
C5_NineLineTemplate ==
    (Rendered /\ bottlenecks # <<>>) =>
        /\ BlocksInOrder(Out, bottlenecks)
        /\ \A k \in 1..Len(bottlenecks) :
             Contains(bottlenecks[k], MARK) =>
                LET rest == AfterComment(Block(Out, k), bottlenecks[k])
                IN  /\ CountLines(rest) = 9
                    /\ IsTemplateFor(rest, NameUsed(rest))

\* a marker line and an unstructured line rendered, in either order
C5_Witness ==
    /\ Rendered
    /\ Len(bottlenecks) = 2
    /\ ~Contains(bottlenecks[1], MARK)
    /\ bottlenecks[1] # <<>>
    /\ Contains(bottlenecks[2], MARK)

(***************************************************************************)
(* C6 as stated.  The name a template refers to is the text between the    *)
(* marker and the next comma, or the whole remainder of the line when no   *)
(* comma follows; the other lines and the footer are rendered all the same.*)
(***************************************************************************)
C6_NameUpToComma ==
    (Rendered /\ bottlenecks # <<>>) =>
        /\ BlocksInOrder(Out, bottlenecks)
        /\ SubSeq(Out, Len(Out) - 1, Len(Out)) = <<FOOTER, NL>>
        /\ \A k \in 1..Len(bottlenecks) :
             Contains(bottlenecks[k], MARK) =>
                NameUsed(AfterComment(Block(Out, k), bottlenecks[k]))
                    = UpTo(AfterMarker(bottlenecks[k]), {COMMA})

(***************************************************************************)
(* C6 amended.  The name a template refers to is the text after the first  *)
(* marker up to the next comma or the next marker, whichever comes first   *)
(* (the whole remainder when neither follows), without its leading and     *)
(* trailing blanks; the other lines and the footer are rendered all the    *)
(* same.                                                                   *)
(***************************************************************************)
C6_NameTrimmed ==
    (Rendered /\ bottlenecks # <<>>) =>
        /\ BlocksInOrder(Out, bottlenecks)
        /\ SubSeq(Out, Len(Out) - 1, Len(Out)) = <<FOOTER, NL>>
        /\ \A k \in 1..Len(bottlenecks) :
             Contains(bottlenecks[k], MARK) =>
                NameUsed(AfterComment(Block(Out, k), bottlenecks[k]))
                    = Trim(UpTo(AfterMarker(bottlenecks[k]), {COMMA, MARK}))

\* a marker line with no comma after the marker, rendered before another line
C6_Witness ==
    /\ Rendered
    /\ Len(bottlenecks) = 2
    /\ Contains(bottlenecks[1], MARK)
    /\ ~Contains(AfterMarker(bottlenecks[1]), COMMA)
    /\ AfterMarker(bottlenecks[1]) # <<>>
    /\ bottlenecks[2] # <<>>

(***************************************************************************)
(* The analyzer.  The CSV at log_path is the record `file`: which of the   *)
(* three columns its header has, whether every timestamp value parses, and *)
(* the activity column of its rows.  event_log is None or the loaded log,  *)
(* kept as the activity column.  reads counts the calls of pd.read_csv.    *)
(* `last` describes the most recent call: its name, whether it raised, and *)
(* whether load_and_convert_log ran during it.                             *)
(***************************************************************************)
START_EVENT_ID == "StartEvent_1"
END_EVENT_ID == "EndEvent_1"

\* the activity labels of the rows; a label is any text, the two ids included
Label == {"A", "B", START_EVENT_ID, END_EVENT_ID}

Rows == UNION {[1..n -> Label] : n \in 0..MaxRows}

Files == [has_case_id : BOOLEAN, has_activity : BOOLEAN, has_timestamp : BOOLEAN,
          parseable : BOOLEAN, rows : Rows]

\* line 21: read_csv raises when parse_dates names a column the header lacks
read_csv_raises(f) == ~f.has_timestamp

\* line 31: convert_to_event_log rejects a frame without the three canonical
\* columns or whose time:timestamp column is not of a datetime type, which is
\* what read_csv leaves behind when a timestamp value does not parse
convert_raises(f) == ~f.has_case_id \/ ~f.has_activity \/ ~f.parseable

Call(op, raised, loaded) == [op |-> op, raised |-> raised, loaded |-> loaded]

\* a variant of lines 21-31 that keeps the frame read_csv returned in event_log
\* before converting it
load_then_partial(op, engine_ok) ==
    /\ reads < MaxReads
    /\ reads' = reads + 1
    /\ IF read_csv_raises(file)
       THEN /\ event_log' = event_log
            /\ last' = Call(op, TRUE, TRUE)
       ELSE /\ event_log' = Some(file.rows)
            /\ last' = Call(op, convert_raises(file) \/ ~engine_ok, TRUE)

\* lines 18-33, run on behalf of `op`; engine_ok is the outcome of the engine
\* call that follows the load in the calling method
load_then(op, engine_ok) ==
    /\ reads < MaxReads
    /\ reads' = reads + 1
    /\ IF read_csv_raises(file) \/ convert_raises(file)
       THEN /\ event_log' = event_log
            /\ last' = Call(op, TRUE, TRUE)
       ELSE /\ event_log' = Some(file.rows)
            /\ last' = Call(op, ~engine_ok, TRUE)

\* the engine call of a method that found the log loaded
engine_only(op, engine_ok) ==
    /\ UNCHANGED <<event_log, reads>>
    /\ last' = Call(op, ~engine_ok, FALSE)

\* lines 18-33
load_and_convert_log == load_then("load_and_convert_log", TRUE)

\* a variant without the guard of line 37
discover_process_model_always_loads(engine_ok) ==
    load_then("discover_process_model", engine_ok)

\* lines 35-43
discover_process_model(engine_ok) ==
    IF event_log = None
    THEN load_then("discover_process_model", engine_ok)
    ELSE engine_only("discover_process_model", engine_ok)

\* a variant without the guard of line 54
analyze_conformance_always_loads(engine_ok) ==
    load_then("analyze_conformance", engine_ok)

\* lines 52-62
analyze_conformance(engine_ok) ==
    IF event_log = None
    THEN load_then("analyze_conformance", engine_ok)
    ELSE engine_only("analyze_conformance", engine_ok)

(***************************************************************************)
(* identify_bottlenecks.  The engine returns a dict from activity to       *)
(* metrics, modelled as a sequence of entries with distinct activities, or *)
(* something falsy (the empty sequence here).                              *)
(***************************************************************************)
ADVISORY == "Nenhum gargalo significativo identificado."
ESPERA == "Tempo Medio de Espera: "
SERVICO == "Tempo Medio de Servico: "

\* activity names an engine may report: plain, with a comma, padded, with the marker
Names == {<<"a">>, <<"a", COMMA, "a">>, <<BLANK, "a">>, <<MARK, "a">>}

\* metrics.get(key, 'N/A') as formatted: both keys absent, both present
Metrics == {[wait |-> "N/A", service |-> "N/A"], [wait |-> "3.2", service |-> "1.1"]}

Entries == {[activity |-> n, wait |-> m.wait, service |-> m.service] : n \in Names, m \in Metrics}

EngineResults ==
    {d \in UNION {[1..n -> Entries] : n \in 0..MaxEntries} :
        \A i, j \in 1..Len(d) : i # j => d[i].activity # d[j].activity}

\* line 76
bottleneck_line(e) ==
    <<MARK>> \o e.activity \o <<COMMA, BLANK, ESPERA, e.wait, COMMA, BLANK, SERVICO, e.service>>

\* a variant without the else branch of lines 77-78
bottleneck_info_no_else(d) == [i \in 1..Len(d) |-> bottleneck_line(d[i])]

\* lines 73-79
bottleneck_info(d) ==
    IF d # <<>>
    THEN [i \in 1..Len(d) |-> bottleneck_line(d[i])]
    ELSE <<<<ADVISORY>>>>

\* lines 64-71: what the call does to the analyzer; it returns bottleneck_info
\* of the engine's result
identify_bottlenecks(engine_ok) ==
    IF event_log = None
    THEN load_then("identify_bottlenecks", engine_ok)
    ELSE engine_only("identify_bottlenecks", engine_ok)

(***************************************************************************)
(* generate_bpmn_xml_content.  The diagram is what the calls on it add: its*)
(* nodes in the order added and its sequence flows in the order added.     *)
(***************************************************************************)
\* line 90: pandas unique(), the distinct values in order of first appearance
RECURSIVE unique(_)
unique(col) ==
    IF col = <<>> THEN <<>>
    ELSE LET front == unique(SubSeq(col, 1, Len(col) - 1))
             x == col[Len(col)]
         IN  IF \E i \in 1..Len(front) : front[i] = x THEN front ELSE Append(front, x)

Node(id, kind, name) == [id |-> id, kind |-> kind, name |-> name]

\* lines 91-92
tasks(activities) == [i \in 1..Len(activities) |-> Node(activities[i], "task", activities[i])]

\* a variant that links every consecutive pair of Start, the activities and End,
\* with no test of line 102
sequence_flows_every_pair(activities) ==
    LET path == <<START_EVENT_ID>> \o activities \o <<END_EVENT_ID>>
    IN  [i \in 1..(Len(path) - 1) |-> <<path[i], path[i+1]>>]

\* lines 102-106
sequence_flows(activities) ==
    IF Len(activities) > 0
    THEN    << <<START_EVENT_ID, activities[1]>> >>
         \o [i \in 1..(Len(activities) - 1) |-> <<activities[i], activities[i+1]>>]
         \o << <<activities[Len(activities)], END_EVENT_ID>> >>
    ELSE <<>>

\* lines 85-106
bpmn_diagram(activities) ==
    [nodes |->    tasks(activities)
               \o <<Node(START_EVENT_ID, "startEvent", "Inicio")>>
               \o <<Node(END_EVENT_ID, "endEvent", "Fim")>>,
     flows |-> sequence_flows(activities)]

\* lines 81-109: subscripting event_log raises when it is None
generate_bpmn_xml_content ==
    /\ UNCHANGED <<event_log, reads>>
    /\ IF event_log = None
       THEN /\ last' = Call("generate_bpmn_xml_content", TRUE, FALSE)
            /\ bpmn' = bpmn
       ELSE /\ last' = Call("generate_bpmn_xml_content", FALSE, FALSE)
            /\ bpmn' = Some(bpmn_diagram(unique(event_log[1])))

(***************************************************************************)
(* One analyzer used by a caller that calls its methods in any order.      *)
(***************************************************************************)
InitAnalyzer == InitCommon /\ file \in Files /\ pc = "lib"

CallLoad ==
    /\ pc = "lib"
    /\ load_and_convert_log
    /\ UNCHANGED <<file, bpmn, bottlenecks, script, pc, stages, outfile>>

CallDiscover ==
    /\ pc = "lib"
    /\ \E engine_ok \in BOOLEAN : discover_process_model(engine_ok)
    /\ UNCHANGED <<file, bpmn, bottlenecks, script, pc, stages, outfile>>

CallConformance ==
    /\ pc = "lib"
    /\ \E engine_ok \in BOOLEAN : analyze_conformance(engine_ok)
    /\ UNCHANGED <<file, bpmn, bottlenecks, script, pc, stages, outfile>>

\* the caller drops the returned list
CallIdentify ==
    /\ pc = "lib"
    /\ \E engine_ok \in BOOLEAN : identify_bottlenecks(engine_ok)
    /\ UNCHANGED <<file, bpmn, bottlenecks, script, pc, stages, outfile>>

CallBpmn ==
    /\ pc = "lib"
    /\ generate_bpmn_xml_content
    /\ UNCHANGED <<file, bottlenecks, script, pc, stages, outfile>>

NextAnalyzer == CallLoad \/ CallDiscover \/ CallConformance \/ CallIdentify \/ CallBpmn

SpecAnalyzer == InitAnalyzer /\ [][NextAnalyzer]_vars

(***************************************************************************)
(* The __main__ driver, lines 136-151, one step per statement that calls   *)
(* the analyzer or writes the file.  An exception leaves the driver at     *)
(* "aborted": nothing in it catches one.                                   *)
(***************************************************************************)
\* the driver hands the log to the engines and never looks into it: files of at
\* most one row stand for all
InitMain == InitCommon /\ file \in {f \in Files : Len(f.rows) <= 1} /\ pc = "line138"

After(next) == IF last'.raised THEN "aborted" ELSE next

\* line 138
MainLoad ==
    /\ pc = "line138"
    /\ load_and_convert_log
    /\ stages' = Append(stages, "normalize")
    /\ pc' = After("line139")
    /\ UNCHANGED <<file, bpmn, bottlenecks, script, outfile>>

\* line 139
MainDiscover ==
    /\ pc = "line139"
    /\ \E engine_ok \in BOOLEAN : discover_process_model(engine_ok)
    /\ stages' = Append(stages, "discover")
    /\ pc' = After("line143")
    /\ UNCHANGED <<file, bpmn, bottlenecks, script, outfile>>

\* lines 143-146
MainIdentify ==
    /\ pc = "line143"
    /\ \E d \in EngineResults, engine_ok \in BOOLEAN :
         /\ identify_bottlenecks(engine_ok)
         /\ bottlenecks' = IF last'.raised THEN bottlenecks ELSE bottleneck_info(d)
    /\ stages' = Append(stages, "identify")
    /\ pc' = After("line148")
    /\ UNCHANGED <<file, bpmn, script, outfile>>

\* line 148
MainRender ==
    /\ pc = "line148"
    /\ script' = Some(generate_sankhya_flow_script(bottlenecks))
    /\ last' = Call("generate_sankhya_flow_script", FALSE, FALSE)
    /\ stages' = Append(stages, "render")
    /\ pc' = "line149"
    /\ UNCHANGED <<file, event_log, reads, bpmn, bottlenecks, outfile>>

\* lines 149-151
MainWrite ==
    /\ pc = "line149"
    /\ outfile' = script
    /\ stages' = Append(stages, "write")
    /\ pc' = "done"
    /\ UNCHANGED <<file, event_log, reads, last, bpmn, bottlenecks, script>>

NextMain == MainLoad \/ MainDiscover \/ MainIdentify \/ MainRender \/ MainWrite

SpecMain == InitMain /\ [][NextMain]_vars

(***************************************************************************)
(* Reading a diagram back.                                                 *)
(***************************************************************************)
BpmnBuilt == last.op = "generate_bpmn_xml_content" /\ ~last.raised /\ bpmn # None

Diagram == bpmn[1]

\* the activity sequence the flow was built from
Activities == unique(event_log[1])

NodesOfKind(d, kind) == {i \in 1..Len(d.nodes) : d.nodes[i].kind = kind}

NoRepeat(seq) == \A i, j \in 1..Len(seq) : i # j => seq[i] # seq[j]

\* the flows of d are exactly the consecutive pairs of path
FlowsFollow(d, path) ==
    /\ Len(d.flows) = Len(path) - 1
    /\ \A i \in 1..Len(d.flows) : d.flows[i] = <<path[i], path[i+1]>>

LinearFlow(d, acts) ==
    LET n == Len(acts)
        path == <<START_EVENT_ID>> \o acts \o <<END_EVENT_ID>>
    IN  /\ Len(d.nodes) = n + 2
        /\ Cardinality(NodesOfKind(d, "startEvent")) = 1
        /\ Cardinality(NodesOfKind(d, "endEvent")) = 1
        /\ \A i \in 1..n : d.nodes[i].kind = "task" /\ d.nodes[i].id = acts[i]
        /\ NoRepeat([i \in 1..Len(d.nodes) |-> d.nodes[i].id])
        /\ FlowsFollow(d, path)
        /\ Len(d.flows) = n + 1
        /\ NoRepeat(path)

(***************************************************************************)
(* C1.  For a non-empty activity sequence of length n the diagram has n+2  *)
(* nodes (one Start, the n activities in order, one End), no node          *)
(* repeated, and n+1 flows Start -> a1 -> ... -> an -> End that form a     *)
(* simple path.                                                            *)
(***************************************************************************)
C1_SimplePath ==
    (BpmnBuilt /\ Activities # <<>>) => LinearFlow(Diagram, Activities)

\* the same, for activity labels other than the ids of the two events
C1_SimplePathOtherLabels ==
    (/\ BpmnBuilt
     /\ Activities # <<>>
     /\ \A i \in 1..Len(Activities) : Activities[i] \notin {START_EVENT_ID, END_EVENT_ID})
        => LinearFlow(Diagram, Activities)

(***************************************************************************)
(* C2.  For an empty activity sequence the diagram has the Start and the   *)
(* End node and nothing else: two nodes, no flow, Start not connected to   *)
(* End.                                                                    *)
(***************************************************************************)
C2_EmptyFlow ==
    (BpmnBuilt /\ Activities = <<>>) =>
        /\ Len(Diagram.nodes) = 2
        /\ Diagram.nodes[1].kind = "startEvent" /\ Diagram.nodes[1].id = START_EVENT_ID
        /\ Diagram.nodes[2].kind = "endEvent" /\ Diagram.nodes[2].id = END_EVENT_ID
        /\ Diagram.flows = <<>>
        /\ \A i \in 1..Len(Diagram.flows) : Diagram.flows[i] # <<START_EVENT_ID, END_EVENT_ID>>

\* a diagram built from a loaded log that has no row
C2_Witness == BpmnBuilt /\ event_log = Some(<<>>) /\ reads > 0

(***************************************************************************)
(* C7.  In a run of the driver on a file that lacks a required column or   *)
(* holds a timestamp that does not parse, load_and_convert_log raises and  *)
(* returns nothing, event_log stays as it was before the call (None), no   *)
(* later stage runs, nothing is rendered and no file is written.           *)
(***************************************************************************)
Malformed(f) == ~f.has_case_id \/ ~f.has_activity \/ ~f.has_timestamp \/ ~f.parseable

StageOrder == <<"normalize", "discover", "identify", "render", "write">>

StagesAt(p) ==
    CASE p = "line138" -> 0
      [] p = "line139" -> 1
      [] p = "line143" -> 2
      [] p = "line148" -> 3
      [] p = "line149" -> 4
      [] p = "done" -> 5

C8_StageOrder ==
    /\ Len(stages) <= Len(StageOrder)
    /\ stages = SubSeq(StageOrder, 1, Len(stages))
    /\ pc # "aborted" => Len(stages) = StagesAt(pc)
    /\ pc = "aborted" => Len(stages) \in 1..3
    /\ reads = IF stages = <<>> THEN 0 ELSE 1
    /\ last.op \in {"discover_process_model", "identify_bottlenecks"} => ~last.loaded
    /\ pc = "done" => stages = StageOrder /\ reads = 1 /\ outfile = script /\ script # None

C8_Witness == pc = "done" /\ reads = 1 /\ Len(stages) = 5

(***************************************************************************)
(* C9.  identify_bottlenecks never returns an empty list: with nothing     *)
(* reported it returns the advisory line alone.  So the list the driver    *)
(* hands to the templater is never empty, the "no bottlenecks" line is     *)
(* never rendered, and a run without bottlenecks renders the advisory line *)
(* as a verbatim comment under the heading, with no template.              *)
(***************************************************************************)
C9_NeverEmpty ==
    /\ pc \in {"line148", "line149", "done"} =>
          /\ bottlenecks # <<>>
          /\ \A k \in 1..Len(bottlenecks) :
                bottlenecks[k] = <<ADVISORY>> \/ Head(bottlenecks[k]) = MARK
          /\ Contains(bottlenecks, <<ADVISORY>>) => bottlenecks = << <<ADVISORY>> >>
    /\ script # None =>
          /\ Positions(script[1], NENHUM) = <<>>
          /\ Positions(script[1], HEADING) = <<7>>
          /\ BlocksInOrder(script[1], bottlenecks)
    /\ (script # None /\ bottlenecks = << <<ADVISORY>> >>) =>
          /\ LinesOf(Body(script[1])) = << <<HEADING>>, <<COMMENT, ADVISORY>> >>
          /\ Positions(script[1], EXEMPLO_PRE) = <<>>

\* a finished run in which the engine reported nothing
C9_Witness == pc = "done" /\ bottlenecks = << <<ADVISORY>> >> /\ outfile # None

(***************************************************************************)
(* C10.  A call of discover_process_model, analyze_conformance or          *)
(* identify_bottlenecks runs load_and_convert_log exactly when event_log   *)
(* is None on entry, and leaves a loaded event_log alone; event_log        *)
(* changes only in a step in which load_and_convert_log ran;               *)
(* generate_bpmn_xml_content never loads: it raises when event_log is None *)
(* and succeeds only when a log is loaded.                                 *)
(***************************************************************************)
Lazy == {"discover_process_model", "analyze_conformance", "identify_bottlenecks"}

C10_Step ==
    /\ last'.op \in Lazy =>
          /\ last'.loaded <=> event_log = None
          /\ reads' = IF event_log = None THEN reads + 1 ELSE reads
          /\ event_log # None => event_log' = event_log
    /\ event_log' # event_log => last'.loaded /\ reads' = reads + 1
    /\ last'.op = "generate_bpmn_xml_content" =>
          /\ ~last'.loaded
          /\ reads' = reads
          /\ event_log' = event_log
          /\ last'.raised <=> event_log = None

====
